---- MODULE Spec2Model ----
(***************************************************************************)
(* HeaderHawk (src/headerhawk.py): URL normalisation, the header fetcher   *)
(* with its certificate-failure fallback, value truncation and the         *)
(* sequential batch loop of process_urls.                                  *)
(*                                                                         *)
(* Python strings are TLA+ strings; a header mapping (dict) is a function  *)
(* from header-name strings to value strings.  Console output, GET         *)
(* requests, appends and sleeps are recorded, in program order, in `log`.  *)
(***************************************************************************)
EXTENDS Integers, Sequences, FiniteSets, TLC

VARIABLES
    urls,       \* process_urls: the argument `urls` (raw strings)
    index,      \* process_urls: loop variable `index` (0 before the loop)
    url,        \* process_urls: loop variable `url` (raw, then normalised)
    pc,         \* position in process_urls / get_headers
    headers,    \* process_urls: `headers`, the value get_headers returned
    raised,     \* <<e>> when get_headers was left by exception e, else <<>>
    results,    \* process_urls: `results`
    log,        \* observable events in program order
    net,        \* the outcomes a requests.get can have in this run
    tv,         \* truncate_value: argument `value`
    tr          \* truncate_value: values returned by successive applications

vars == <<urls, index, url, pc, headers, raised, results, log, net, tv, tr>>

----------------------------------------------------------------------------
(* Bounds of the model *)

\* longest input list given to process_urls
MaxUrls == 3

\* longest input list when every response and exception is in play
MaxFetchUrls == 2

\* number of free trailing characters of a truncate_value argument
MaxTail == 8

\* number of successive applications of truncate_value
MaxApply == 2

----------------------------------------------------------------------------
(* Constants of the program *)

MAX_URLS == 20

MAX_HEADER_LENGTH == 80

RATE_LIMIT_DELAY == 2

HEADERS_TO_CHECK ==
    << "content-security-policy", "x-frame-options",
       "strict-transport-security", "referrer-policy" >>

TrackedSet == { HEADERS_TO_CHECK[i] : i \in 1..Len(HEADERS_TO_CHECK) }

----------------------------------------------------------------------------
(* String helpers: str.startswith, str.lower, repetition *)

StartsWith(s, p) == Len(s) >= Len(p) /\ SubSeq(s, 1, Len(p)) = p

UpperChars == "ABCDEFGHIJKLMNOPQRSTUVWXYZ"

LowerChars == "abcdefghijklmnopqrstuvwxyz"

CharAt(s, i) == SubSeq(s, i, i)

\* the characters of s, as a set
CharsOf(s) == { CharAt(s, i) : i \in 1..Len(s) }

LowerMap ==
    [ c \in CharsOf(UpperChars) |->
        CharAt(LowerChars, CHOOSE i \in 1..26 : CharAt(UpperChars, i) = c) ]

LowerChar(c) == IF c \in DOMAIN LowerMap THEN LowerMap[c] ELSE c

\* str.lower, character by character
LowerOf[s \in STRING] ==
    IF s = "" THEN "" ELSE LowerChar(CharAt(s, 1)) \o LowerOf[SubSeq(s, 2, Len(s))]

Lower(s) == LowerOf[s]

RECURSIVE Rep(_, _)
Rep(c, n) == IF n = 0 THEN "" ELSE c \o Rep(c, n - 1)

----------------------------------------------------------------------------
(* validators.url: the library's syntax check, reduced to what separates    *)
(* the inputs used here: an http/https scheme, then a dotted host made of   *)
(* letters, digits, '-' and '.', then an optional path without whitespace.  *)

HostChars == CharsOf("abcdefghijklmnopqrstuvwxyz0123456789-.")

PathChars == CharsOf("abcdefghijklmnopqrstuvwxyz0123456789-._~/")

\* position of the first '/' of s, or Len(s)+1
FirstSlash(s) ==
    IF \E i \in 1..Len(s) : CharAt(s, i) = "/"
    THEN CHOOSE i \in 1..Len(s) :
            CharAt(s, i) = "/" /\ \A j \in 1..(i-1) : CharAt(s, j) # "/"
    ELSE Len(s) + 1

ValidHost(h) ==
    /\ Len(h) >= 3
    /\ \A i \in 1..Len(h) : CharAt(h, i) \in HostChars
    /\ CharAt(h, 1) # "." /\ CharAt(h, Len(h)) # "."
    /\ CharAt(h, 1) # "-" /\ CharAt(h, Len(h)) # "-"
    /\ \E i \in 2..(Len(h)-1) : CharAt(h, i) = "."
    /\ \A i \in 1..(Len(h)-1) : ~(CharAt(h, i) = "." /\ CharAt(h, i+1) = ".")

ValidatorsUrl(s) ==
    \E scheme \in {"http://", "https://"} :
        /\ StartsWith(s, scheme)
        /\ LET rest == SubSeq(s, Len(scheme) + 1, Len(s))
               cut  == FirstSlash(rest)
           IN  /\ ValidHost(SubSeq(rest, 1, cut - 1))
               /\ \A i \in cut..Len(rest) : CharAt(rest, i) \in PathChars

----------------------------------------------------------------------------
(* validate_and_format_url *)

\* variant: the scheme is prepended whatever the input starts with
Candidate_AlwaysPrepend(raw) == "https://" \o raw

\* the string handed to the validator (lines 51-52)
Candidate(raw) ==
    IF ~(StartsWith(raw, "http://") \/ StartsWith(raw, "https://"))
    THEN "https://" \o raw
    ELSE raw

\* variant: the validator's verdict is ignored
validate_and_format_url_Lenient(raw) == [ok |-> TRUE, url |-> Candidate(raw)]

\* the call's outcome: the returned URL, or the ValueError raised (lines 54-57)
validate_and_format_url(raw) ==
    LET u == Candidate(raw)
    IN  IF ~ValidatorsUrl(u)
        THEN [ok |-> FALSE, msg |-> "Invalid URL format: " \o u]
        ELSE [ok |-> TRUE, url |-> u]

----------------------------------------------------------------------------
(* truncate_value *)

\* variant: a value of exactly the limit is cut too
truncate_value_AtLimit(value) ==
    IF Len(value) >= MAX_HEADER_LENGTH
    THEN SubSeq(value, 1, MAX_HEADER_LENGTH) \o "..."
    ELSE value

truncate_value(value) ==
    IF Len(value) > MAX_HEADER_LENGTH
    THEN SubSeq(value, 1, MAX_HEADER_LENGTH) \o "..."
    ELSE value

----------------------------------------------------------------------------
(* The environment: what the user types and what the network answers *)

\* raw inputs: no scheme, http scheme, and a string no scheme can repair
RawUrls == { "a.io", "http://b.io/x", "not a url" }

UrlLists(max) == UNION { [1..n -> RawUrls] : n \in 1..max }

LongValue == "default-src 'self'; " \o Rep("x", MAX_HEADER_LENGTH)

EdgeValue == Rep("y", MAX_HEADER_LENGTH)

\* response.headers of a successful GET, under the names the server sent
ExampleResponse ==
    ("Strict-Transport-Security" :> "max-age=63072000")
        @@ ("Content-Type" :> "text/html")

FullResponse ==
    ("content-security-policy" :> LongValue)
        @@ ("X-FRAME-OPTIONS" :> "DENY")
        @@ ("Referrer-Policy" :> EdgeValue)
        @@ ("Server" :> "nginx")

Responses == { ExampleResponse, FullResponse }

\* exceptions requests.get raises: kind is the class, msg is str(e)
CertError == [kind |-> "SSLError", msg |-> "certificate verify failed"]

TimeoutError == [kind |-> "Timeout", msg |-> ""]

ConnError ==
    [kind |-> "ConnectionError",
     msg |-> "Max retries exceeded: " \o Rep("z", MAX_HEADER_LENGTH)]

Exceptions == { CertError, TimeoutError, ConnError }

Returns(r) == [ok |-> TRUE, headers |-> r]

Raises(e) == [ok |-> FALSE, exc |-> e]

\* outcomes of one requests.get call
GetOutcomes ==
    { Returns(ExampleResponse), Returns(FullResponse),
      Raises(CertError), Raises(TimeoutError), Raises(ConnError) }

\* one outcome of each kind: a response, a trust failure, another failure
BasicOutcomes == { Returns(FullResponse), Raises(CertError), Raises(TimeoutError) }

----------------------------------------------------------------------------
(* get_headers *)

\* the verify= argument of the first and of the second requests.get
Verify1 == TRUE

Verify2 == FALSE

\* variant: the names are kept as the server sent them
LowerHeaders_AsSent(resp) == resp

\* {k.lower(): v for k, v in response.headers.items()}
LowerHeaders(resp) ==
    [ k \in { Lower(n) : n \in DOMAIN resp } |->
        resp[CHOOSE n \in DOMAIN resp : Lower(n) = k] ]

\* variant: a failed fetch hands back the mapping of the fetch before it
ErrorHeaders_Stale(e) == headers

\* variant: the placeholder is the bare exception text
ErrorHeaders_BareText(e) == [ h \in TrackedSet |-> e.msg ]

\* variant: the error placeholder drops the exception text
ErrorHeaders_NoText(e) == [ h \in TrackedSet |-> "Error" ]

\* {header: f"Error: {str(e)}" for header in HEADERS_TO_CHECK}
ErrorHeaders(e) == [ h \in TrackedSet |-> "Error: " \o e.msg ]

\* variant: the first handler takes every exception for a trust failure
Handler1_CatchAll(e) == "fallback"

\* variant: no catch-all clause after the SSLError clause
Handler1_NoCatchAll(e) == IF e.kind = "SSLError" THEN "fallback" ELSE "raise"

\* the except clause an exception of the first GET lands in (lines 70, 83)
Handler1(e) == IF e.kind = "SSLError" THEN "fallback" ELSE "degrade"

\* variant: the inner handler lets a second trust failure escape
Handler2_SSLEscapes(e) == IF e.kind = "SSLError" THEN "raise" ELSE "degrade"

\* the except clause an exception of the second GET lands in (line 81)
Handler2(e) == "degrade"

\* variant: the fallback is taken silently
SSLWarning_Silent(u, i) == << >>

\* console output of the SSLError handler before the second GET (line 71)
SSLWarning(u, i) == << [ev |-> "warning", url |-> u, i |-> i] >>

GetEvent(u, i, verify, o) ==
    [ev |-> "get", url |-> u, i |-> i, verify |-> verify,
     outcome |-> IF o.ok THEN "ok" ELSE o.exc.kind,
     err |-> IF o.ok THEN "" ELSE o.exc.msg,
     resp |-> IF o.ok THEN o.headers ELSE << >>]

\* the first requests.get of get_headers and what follows it (lines 61-71, 83-84)
GetTrusted ==
    /\ pc = "trusted"
    /\ \E o \in net :
        LET g == GetEvent(url, index, Verify1, o)
        IN  IF o.ok
            THEN /\ headers' = LowerHeaders(o.headers)
                 /\ raised' = <<>>
                 /\ pc' = "returned"
                 /\ log' = Append(log, g)
            ELSE CASE Handler1(o.exc) = "fallback" ->
                        /\ pc' = "untrusted"
                        /\ log' = Append(log, g) \o SSLWarning(url, index)
                        /\ UNCHANGED <<headers, raised>>
                   [] Handler1(o.exc) = "degrade" ->
                        /\ headers' = ErrorHeaders(o.exc)
                        /\ raised' = <<>>
                        /\ pc' = "returned"
                        /\ log' = Append(log, g)
                   [] OTHER ->
                        /\ raised' = <<o.exc>>
                        /\ UNCHANGED headers
                        /\ pc' = "returned"
                        /\ log' = Append(log, g)
    /\ UNCHANGED <<urls, index, url, results, net, tv, tr>>

\* the second requests.get, inside the SSLError handler (lines 72-82)
GetUntrusted ==
    /\ pc = "untrusted"
    /\ \E o \in net :
        LET g == GetEvent(url, index, Verify2, o)
        IN  /\ log' = Append(log, g)
            /\ pc' = "returned"
            /\ IF o.ok
               THEN /\ headers' = LowerHeaders(o.headers)
                    /\ raised' = <<>>
               ELSE IF Handler2(o.exc) = "degrade"
                    THEN /\ headers' = ErrorHeaders(o.exc)
                         /\ raised' = <<>>
                    ELSE /\ raised' = <<o.exc>>
                         /\ UNCHANGED headers
    /\ UNCHANGED <<urls, index, url, results, net, tv, tr>>

----------------------------------------------------------------------------
(* process_urls *)

\* headers.get(header, "Missing")
DictGet(d, k, default) == IF k \in DOMAIN d THEN d[k] ELSE default

\* isinstance(value, str)
IsStr(value) == value \in STRING

\* the field recorded for one tracked header (lines 106-110)
FieldFor(hs, header) ==
    LET value == DictGet(hs, header, "Missing")
    IN  IF IsStr(value) THEN truncate_value(value) ELSE "Missing"

\* variant: only the tracked headers the mapping holds get a field
BuildResult_OnlyPresent(u, hs) ==
    [ k \in {"URL"} \cup (TrackedSet \cap DOMAIN hs) |->
        IF k = "URL" THEN u ELSE FieldFor(hs, k) ]

\* the dict `result` built for one URL (lines 104-110)
BuildResult(u, hs) ==
    [ k \in {"URL"} \cup TrackedSet |-> IF k = "URL" THEN u ELSE FieldFor(hs, k) ]

\* variant: the new record is put in front
AppendResult_Prepend(rs, r) == <<r>> \o rs

\* variant: the list is rebuilt from the new record alone
AppendResult_Replace(rs, r) == <<r>>

\* results.append(result) (line 112)
AppendResult(rs, r) == Append(rs, r)

\* variant: the pause is taken after the last URL too
ShouldDelay_Always(i, total) == i <= total

\* variant: the pause is taken after every record
ShouldDelay_Unconditional(i, total) == TRUE

\* variant: the pause before the last URL is dropped too
ShouldDelay_OffByOne(i, total) == i < total - 1

\* the rate-limiting test (line 115)
ShouldDelay(i, total) == i < total

\* variant: the total counts only the URLs still to come
total_urls_Remaining == Len(urls) - index

total_urls == Len(urls)

\* variant: no except clause, so an invalid URL ends process_urls
Iterate_Abort ==
    /\ pc = "loop"
    /\ index < Len(urls)
    /\ index' = index + 1
    /\ LET raw == urls[index + 1]
           v   == validate_and_format_url(raw)
       IN  IF v.ok
           THEN /\ url' = v.url
                /\ log' = Append(log, [ev |-> "progress", url |-> v.url,
                                       i |-> index + 1, total |-> total_urls])
                /\ pc' = "trusted"
           ELSE /\ url' = raw
                /\ log' = log
                /\ pc' = "done"
    /\ UNCHANGED <<urls, headers, raised, results, net, tv, tr>>

\* one pass of the for header with lines 99-100, or the except clause of
\* line 119 when validate_and_format_url raises
Iterate ==
    /\ pc = "loop"
    /\ index < Len(urls)
    /\ index' = index + 1
    /\ LET raw == urls[index + 1]
           v   == validate_and_format_url(raw)
       IN  IF v.ok
           THEN /\ url' = v.url
                /\ log' = Append(log, [ev |-> "progress", url |-> v.url,
                                       i |-> index + 1, total |-> total_urls])
                /\ pc' = "trusted"
           ELSE /\ url' = raw
                /\ log' = Append(log, [ev |-> "error", url |-> raw,
                                       i |-> index + 1, msg |-> v.msg])
                /\ pc' = "loop"
    /\ UNCHANGED <<urls, headers, raised, results, net, tv, tr>>

\* get_headers has returned: build and append the record (lines 102-112);
\* had it raised, the except clause of line 119 reports and skips
Record ==
    /\ pc = "returned"
    /\ IF raised # <<>>
       THEN /\ log' = Append(log, [ev |-> "error", url |-> url, i |-> index,
                                   msg |-> raised[1].msg])
            /\ raised' = <<>>
            /\ pc' = "loop"
            /\ UNCHANGED results
       ELSE /\ results' = AppendResult(results, BuildResult(url, headers))
            /\ log' = Append(log, [ev |-> "append", url |-> url, i |-> index])
            /\ pc' = "pace"
            /\ UNCHANGED raised
    /\ UNCHANGED <<urls, index, url, headers, net, tv, tr>>

\* rate limiting after a record (lines 115-117)
Pace ==
    /\ pc = "pace"
    /\ log' = IF ShouldDelay(index, total_urls)
              THEN Append(log, [ev |-> "delay", i |-> index,
                                seconds |-> RATE_LIMIT_DELAY])
              ELSE log
    /\ pc' = "loop"
    /\ UNCHANGED <<urls, index, url, headers, raised, results, net, tv, tr>>

\* return results (line 122)
Return ==
    /\ pc = "loop"
    /\ index = Len(urls)
    /\ pc' = "done"
    /\ UNCHANGED <<urls, index, url, headers, raised, results, log, net, tv, tr>>

Init ==
    /\ urls \in UrlLists(MaxUrls)
    /\ net = BasicOutcomes
    /\ index = 0
    /\ url = ""
    /\ pc = "loop"
    /\ headers = <<>>
    /\ raised = <<>>
    /\ results = <<>>
    /\ log = <<>>
    /\ tv = ""
    /\ tr = <<>>

Next == Iterate \/ GetTrusted \/ GetUntrusted \/ Record \/ Pace \/ Return

Spec == Init /\ [][Next]_vars


\* short batches against every response and exception of the environment
InitFetch ==
    /\ urls \in UrlLists(MaxFetchUrls)
    /\ net = GetOutcomes
    /\ index = 0
    /\ url = ""
    /\ pc = "loop"
    /\ headers = <<>>
    /\ raised = <<>>
    /\ results = <<>>
    /\ log = <<>>
    /\ tv = ""
    /\ tr = <<>>

SpecFetch == InitFetch /\ [][Next]_vars

\* the program keeps running: every GET (bounded by its timeout) and every
\* sleep returns
SpecFetchLive == SpecFetch /\ WF_vars(Next)

----------------------------------------------------------------------------
(* Reading the log *)

IsGet(p) == log[p].ev = "get"

\* the positions of the GETs issued for the URL at input index i
GetsOf(i) == { p \in 1..Len(log) : IsGet(p) /\ log[p].i = i }

\* get_headers has just returned (or raised) and the last event is its last GET
JustFetched == pc = "returned" /\ Len(log) > 0 /\ IsGet(Len(log))

LastGet == log[Len(log)]

IsHeaderMapping(hs) ==
    /\ DOMAIN hs \subseteq STRING
    /\ \A k \in DOMAIN hs : hs[k] \in STRING

----------------------------------------------------------------------------
(* C1: get_headers never raises.  Whatever the first and, if made, the     *)
(* second GET do (response, certificate-trust failure, other exception),   *)
(* the call returns a header mapping, and when its last GET failed that    *)
(* mapping is the Degraded-Error one: the tracked names, each with an      *)
(* "Error: ..." string.                                                    *)
C1_NeverRaises ==
    /\ raised = << >>
    /\ pc = "returned" =>
        /\ JustFetched
        /\ IsHeaderMapping(headers)
        /\ LastGet.outcome # "ok" =>
              /\ DOMAIN headers = TrackedSet
              /\ \A h \in TrackedSet : StartsWith(headers[h], "Error: ")

\* both GETs failed on certificate trust, and get_headers has returned
C1_Witness ==
    /\ JustFetched
    /\ LastGet.verify = FALSE
    /\ LastGet.outcome = "SSLError"

(* C2: a GET with verification disabled comes only right after a verified  *)
(* GET of the same URL that failed on certificate trust (with the warning  *)
(* between them); the first GET of every call is verified; a verified GET  *)
(* that succeeds or fails otherwise is the last GET of its call.           *)
C2_UnverifiedOnlyAfterTrustFailure ==
    \A p \in 1..Len(log) :
        /\ (IsGet(p) /\ ~log[p].verify) =>
              /\ p >= 3
              /\ IsGet(p - 2)
              /\ log[p - 2].verify
              /\ log[p - 2].outcome = "SSLError"
              /\ log[p - 2].url = log[p].url
              /\ log[p - 2].i = log[p].i
        /\ (log[p].ev = "progress" /\ p < Len(log)) =>
              /\ IsGet(p + 1)
              /\ log[p + 1].verify
              /\ log[p + 1].url = log[p].url
        /\ (IsGet(p) /\ log[p].verify /\ log[p].outcome # "SSLError") =>
              \A q \in GetsOf(log[p].i) : q <= p

\* an unverified GET was issued, and an earlier URL's verified GET did not
\* fail on trust
C2_Witness ==
    \E p, q \in 1..Len(log) :
        /\ p < q
        /\ IsGet(p) /\ log[p].verify /\ log[p].outcome = "Timeout"
        /\ IsGet(q) /\ ~log[q].verify

\* the state part of C3
FetcherShape ==
    /\ \A i \in 1..Len(urls) : Cardinality(GetsOf(i)) <= 2
    /\ pc = "trusted" => GetsOf(index) = {}
    /\ pc = "untrusted" =>
          /\ Cardinality(GetsOf(index)) = 1
          /\ \A p \in GetsOf(index) : log[p].verify /\ log[p].outcome = "SSLError"
    /\ \A p \in 1..Len(log) :
          (/\ IsGet(p)
           /\ log[p].outcome # "ok"
           /\ ~(log[p].verify /\ log[p].outcome = "SSLError")) =>
              \A q \in GetsOf(log[p].i) : q <= p
    /\ (JustFetched /\ LastGet.outcome # "ok") =>
          /\ Len(HEADERS_TO_CHECK) = 4
          /\ headers = [ h \in TrackedSet |-> "Error: " \o LastGet.err ]

(* C3: the fetcher makes at most two GETs per URL, the second only from    *)
(* TryingUntrusted after a trust failure; a failure other than the first   *)
(* attempt's trust failure ends the call with no further GET; the Degraded *)
(* snapshot maps exactly the four tracked names to "Error: " followed by   *)
(* the text of the exception that failed last; and a call that has started *)
(* always reaches a terminal state (get_headers returns).                  *)
C3_TwoAttemptMachine ==
    /\ []FetcherShape
    /\ (pc = "trusted") ~> (pc = "returned")
    /\ (pc = "untrusted") ~> (pc = "returned")

\* Degraded after the fallback: the second GET failed with another
\* exception than the first
C3_Witness ==
    /\ JustFetched
    /\ ~LastGet.verify
    /\ LastGet.outcome = "Timeout"
    /\ headers = [ h \in TrackedSet |-> "Error: " ]

(* C4: every unverified GET is preceded, immediately, by a warning naming  *)
(* its URL, so a result obtained without verification is returned only     *)
(* after the warning; and a warning appears only right after a verified    *)
(* GET of that URL failed on trust, so a call that stays in attempt 1      *)
(* emits none.                                                             *)
C4_UnverifiedIsFlagged ==
    \A p \in 1..Len(log) :
        /\ (IsGet(p) /\ ~log[p].verify) =>
              /\ p >= 2
              /\ log[p - 1].ev = "warning"
              /\ log[p - 1].url = log[p].url
              /\ log[p - 1].i = log[p].i
        /\ log[p].ev = "warning" =>
              /\ p >= 2
              /\ IsGet(p - 1)
              /\ log[p - 1].verify
              /\ log[p - 1].outcome = "SSLError"
              /\ log[p - 1].url = log[p].url
              /\ log[p - 1].i = log[p].i

\* the headers of an unverified response have been returned, after a call
\* for an earlier URL that stayed in attempt 1
C4_Witness ==
    /\ JustFetched
    /\ ~LastGet.verify
    /\ LastGet.outcome = "ok"
    /\ headers = LowerHeaders(FullResponse)
    /\ \E p \in 1..Len(log) : IsGet(p) /\ log[p].verify /\ log[p].outcome = "ok"

----------------------------------------------------------------------------
(* Reading the batch *)

PassesNormalization(raw) == validate_and_format_url(raw).ok

\* the normalised forms of the inputs that pass normalisation, in input order
NormalizedValid(us) ==
    LET kept == SelectSeq(us, PassesNormalization)
    IN  [ j \in 1..Len(kept) |-> Candidate(kept[j]) ]

UrlFields(rs) == [ j \in 1..Len(rs) |-> rs[j]["URL"] ]

EventsOf(kind) == { p \in 1..Len(log) : log[p].ev = kind }

(* C5: process_urls preserves order and skips: the URL fields of the       *)
(* returned records are the normalised forms of the inputs that pass       *)
(* normalisation, in input order, one record each; an input that fails     *)
(* normalisation contributes none.                                         *)
C5_OrderPreservingWithSkips ==
    pc = "done" =>
        /\ UrlFields(results) = NormalizedValid(urls)
        /\ Len(results) = Cardinality({ i \in 1..Len(urls) : ValidatorsUrl(Candidate(urls[i])) })

\* [u1, u2, u3] with u2 invalid: the records of u1 and u3, in that order
C5_Witness ==
    /\ pc = "done"
    /\ urls = << "a.io", "not a url", "http://b.io/x" >>
    /\ UrlFields(results) = << "https://a.io", "http://b.io/x" >>

(* C6: pacing.  When all N inputs pass normalisation the delay is taken    *)
(* exactly N-1 times, each right after a record is appended and before the *)
(* progress line and fetch of the next URL; none before the first URL's    *)
(* fetch, none after the last record; for N = 1 none at all.               *)
C6_Pacing ==
    (\A i \in 1..Len(urls) : PassesNormalization(urls[i])) =>
        /\ \A p \in EventsOf("delay") :
              /\ p >= 2
              /\ log[p - 1].ev = "append"
              /\ log[p - 1].i = log[p].i
              /\ log[p].i < Len(urls)
              /\ \E q \in 1..(p - 1) : IsGet(q)
              /\ \A q \in GetsOf(log[p].i + 1) : q > p
              /\ p < Len(log) =>
                    /\ log[p + 1].ev = "progress"
                    /\ log[p + 1].i = log[p].i + 1
              /\ p + 1 < Len(log) => IsGet(p + 2) /\ log[p + 2].i = log[p].i + 1
        /\ \A i \in 1..Len(urls) :
              Cardinality({ p \in EventsOf("delay") : log[p].i = i }) <= 1
        /\ pc = "done" =>
              /\ Cardinality(EventsOf("delay")) = Len(urls) - 1
              /\ log[Len(log)].ev = "append"
              /\ log[Len(log)].i = Len(urls)

\* three valid URLs processed with two delays
C6_Witness ==
    /\ pc = "done"
    /\ Len(urls) = 3
    /\ \A i \in 1..3 : PassesNormalization(urls[i])
    /\ Cardinality(EventsOf("delay")) = 2
    /\ Len(results) = 3

----------------------------------------------------------------------------
(* Reading the records *)

\* the record appended by the "append" event at log position p
RecordOf(p) == results[Cardinality({ q \in 1..p : log[q].ev = "append" })]

\* a GET that ended get_headers in Degraded: any failure but the first
\* attempt's trust failure
IsDegradingGet(p) ==
    /\ IsGet(p)
    /\ log[p].outcome # "ok"
    /\ ~(log[p].verify /\ log[p].outcome = "SSLError")

\* header names equal up to letter case
SameName(n, h) ==
    /\ Len(n) = Len(h)
    /\ \A i \in 1..Len(n) : LowerChar(CharAt(n, i)) = LowerChar(CharAt(h, i))

IsTruncated(v) == Len(v) = 83 /\ SubSeq(v, 81, 83) = "..."

(* C7: record shape.  Every record of the results list has exactly five    *)
(* fields, "URL" and the four tracked header names, whatever the fetch     *)
(* ended in, and each tracked field is a string of at most 83 characters.  *)
C7_RecordShape ==
    \A j \in 1..Len(results) :
        /\ DOMAIN results[j] =
              { "URL", "content-security-policy", "x-frame-options",
                "strict-transport-security", "referrer-policy" }
        /\ Cardinality(DOMAIN results[j]) = 5
        /\ \A h \in DOMAIN results[j] : results[j][h] \in STRING
        /\ \A h \in DOMAIN results[j] \ {"URL"} :
              Len(results[j][h]) <= 80 \/ IsTruncated(results[j][h])

\* a Degraded record followed by the record of a response that lacks
\* tracked headers
C7_Witness ==
    /\ Len(results) = 2
    /\ results[1]["x-frame-options"] = "Error: "
    /\ results[2]["x-frame-options"] = "Missing"
    /\ results[2]["strict-transport-security"] = "max-age=63072000"

(* C8: Degraded-fetch law.  When the GET that ends get_headers fails (a    *)
(* non-trust failure of the first GET, or any failure of the fallback),    *)
(* the next step appends a record for that URL whose URL field is the      *)
(* normalised URL and whose four tracked fields are the non-empty string   *)
(* "Error: " + exception text (truncated), never "Missing" and never       *)
(* empty.                                                                  *)
C8_DegradedFetchLaw ==
    \A p \in 1..Len(log) :
        (IsDegradingGet(p) /\ p < Len(log)) =>
            /\ log[p + 1].ev = "append"
            /\ log[p + 1].i = log[p].i
            /\ LET r == RecordOf(p + 1)
                   e == "Error: " \o log[p].err
               IN  /\ r["URL"] = Candidate(urls[log[p].i])
                   /\ ValidatorsUrl(r["URL"])
                   /\ \A h \in TrackedSet :
                         /\ r[h] # "" /\ r[h] # "Missing"
                         /\ StartsWith(r[h], "Error: ")
                         /\ IF Len(e) > 80
                            THEN IsTruncated(r[h]) /\ SubSeq(r[h], 1, 80) = SubSeq(e, 1, 80)
                            ELSE r[h] = e

\* a record of a failed fallback whose error text was cut, after a record
\* of a first-attempt failure with empty exception text
C8_Witness ==
    /\ Len(results) = 2
    /\ \E p \in EventsOf("get") : ~log[p].verify /\ log[p].outcome = "ConnectionError"
    /\ \A h \in TrackedSet : results[1][h] = "Error: "
    /\ \A h \in TrackedSet :
          IsTruncated(results[2][h]) /\ StartsWith(results[2][h], "Error: Max retries")

(* C9: extraction.  For the record appended after a successful GET and     *)
(* each tracked header h: if the response carries h under some letter      *)
(* case, field h holds that value, cut to 80 characters plus "..." when    *)
(* longer; otherwise field h is "Missing"; and no other response header    *)
(* appears in the record.                                                  *)
C9_Extraction ==
    \A p \in 1..Len(log) :
        (IsGet(p) /\ log[p].outcome = "ok" /\ p < Len(log)) =>
            /\ log[p + 1].ev = "append"
            /\ LET r    == RecordOf(p + 1)
                   resp == log[p].resp
               IN  /\ DOMAIN r \ {"URL"} = TrackedSet
                   /\ \A n \in DOMAIN resp :
                         (\A h \in TrackedSet : ~SameName(n, h)) =>
                             /\ n \notin DOMAIN r
                             /\ Lower(n) \notin DOMAIN r
                   /\ \A h \in TrackedSet :
                         /\ (\A n \in DOMAIN resp : ~SameName(n, h)) => r[h] = "Missing"
                         /\ \A n \in DOMAIN resp :
                               SameName(n, h) =>
                                   IF Len(resp[n]) > 80
                                   THEN /\ IsTruncated(r[h])
                                        /\ SubSeq(r[h], 1, 80) = SubSeq(resp[n], 1, 80)
                                   ELSE r[h] = resp[n]

\* a response with upper-case, lower-case and mixed-case tracked names, a
\* long value, a value of exactly 80 characters and one header missing
C9_Witness ==
    \E j \in 1..Len(results) :
        /\ results[j]["x-frame-options"] = "DENY"
        /\ IsTruncated(results[j]["content-security-policy"])
        /\ results[j]["referrer-policy"] = EdgeValue
        /\ results[j]["strict-transport-security"] = "Missing"

----------------------------------------------------------------------------
(* truncate_value applied to a value, and again to what it returned *)

Tails[n \in Nat] ==
    IF n = 0 THEN {""} ELSE Tails[n - 1] \cup { t \o c : t \in Tails[n - 1], c \in {"b", "."} }

\* values around the limit: a run of 76 characters or none, then a free tail
TruncInputs ==
    { Rep("a", n) \o t : n \in {0, MAX_HEADER_LENGTH - 4}, t \in Tails[MaxTail] }

InitTrunc ==
    /\ tv \in TruncInputs
    /\ tr = << >>
    /\ urls = << >>
    /\ index = 0
    /\ url = ""
    /\ pc = "truncate"
    /\ headers = << >>
    /\ raised = << >>
    /\ results = << >>
    /\ log = << >>
    /\ net = {}

Truncate ==
    /\ pc = "truncate"
    /\ Len(tr) < MaxApply
    /\ tr' = Append(tr, truncate_value(IF tr = << >> THEN tv ELSE tr[Len(tr)]))
    /\ UNCHANGED <<urls, index, url, pc, headers, raised, results, log, net, tv>>

NextTrunc == Truncate

SpecTrunc == InitTrunc /\ [][NextTrunc]_vars

(* C10: truncation law.  truncate_value maps a value longer than 80        *)
(* characters to its first 80 characters followed by "...", returns a      *)
(* value of at most 80 characters unchanged, and applying it again to its  *)
(* own result changes nothing.                                             *)
C10_TruncationLaw ==
    /\ Len(tr) >= 1 =>
          IF Len(tv) > 80
          THEN /\ Len(tr[1]) = 83
               /\ SubSeq(tr[1], 1, 80) = SubSeq(tv, 1, 80)
               /\ SubSeq(tr[1], 81, 83) = "..."
          ELSE tr[1] = tv
    /\ \A k \in 2..Len(tr) : tr[k] = tr[1]

\* an 82-character value truncated twice
C10_Witness ==
    /\ Len(tv) = 82
    /\ Len(tr) = 2
    /\ Len(tr[1]) = 83
    /\ tr[1] # tv
    /\ tr[2] = tr[1]

----------------------------------------------------------------------------
(* validate_and_format_url on many raw strings, each as a batch of one *)

NormPrefixes ==
    { "", "http://", "https://", "HTTP://", "ftp://", "http:/", "https://https://",
      " https://", "//" }

NormRests ==
    { "a.io", "b.io/x", "not a url", "", "a", "a..io", "-a.io", "a.io/p q",
      "http://a.io", "sub.a-b.io/x/y" }

NormInputs == { p \o r : p \in NormPrefixes, r \in NormRests }

InitNorm ==
    /\ urls \in { <<raw>> : raw \in NormInputs }
    /\ net = BasicOutcomes
    /\ index = 0
    /\ url = ""
    /\ pc = "loop"
    /\ headers = << >>
    /\ raised = << >>
    /\ results = << >>
    /\ log = << >>
    /\ tv = ""
    /\ tr = << >>

SpecNorm == InitNorm /\ [][Next]_vars

\* the candidate as C11 words it
HasScheme(raw) ==
    \/ (Len(raw) >= 7 /\ SubSeq(raw, 1, 7) = "http://")
    \/ (Len(raw) >= 8 /\ SubSeq(raw, 1, 8) = "https://")

ClaimedCandidate(raw) == IF HasScheme(raw) THEN raw ELSE "https://" \o raw

(* C11: validate_and_format_url.  For a raw string that starts with        *)
(* 'http://' or 'https://' the candidate is the raw string itself,         *)
(* otherwise it is 'https://' + raw; the call returns the candidate iff    *)
(* the validator accepts it and otherwise fails with an invalid-URL error  *)
(* carrying the candidate; so every URL field of every record starts with  *)
(* 'http://' or 'https://' and passes the validator.                       *)
C11_Normalization ==
    /\ \A i \in 1..index :
          LET c    == ClaimedCandidate(urls[i])
              mine == { p \in 1..Len(log) : log[p].i = i }
              p1   == CHOOSE p \in mine : \A q \in mine : p <= q
          IN  /\ mine # {}
              /\ IF ValidatorsUrl(c)
                 THEN log[p1].ev = "progress" /\ log[p1].url = c
                 ELSE /\ log[p1].ev = "error"
                      /\ log[p1].url = urls[i]
                      /\ log[p1].msg = "Invalid URL format: " \o c
                      /\ mine = {p1}
    /\ \A j \in 1..Len(results) :
          /\ HasScheme(results[j]["URL"])
          /\ ValidatorsUrl(results[j]["URL"])
          /\ \E i \in 1..index : results[j]["URL"] = ClaimedCandidate(urls[i])

\* a raw string without scheme was given 'https://' and recorded
C11_Witness ==
    /\ urls = << "sub.a-b.io/x/y" >>
    /\ Len(results) = 1
    /\ results[1]["URL"] = "https://sub.a-b.io/x/y"

----------------------------------------------------------------------------
(* Reading the iterations *)

\* the log positions of the events of input index i
PositionsOf(i) == { p \in 1..Len(log) : log[p].i = i }

FirstOf(i) == CHOOSE p \in PositionsOf(i) : \A q \in PositionsOf(i) : p <= q

LastOf(i) == CHOOSE p \in PositionsOf(i) : \A q \in PositionsOf(i) : q <= p

\* the events that report the outcome of normalising input i
NormalizationsOf(i) ==
    { p \in PositionsOf(i) :
        \/ log[p].ev = "progress"
        \/ (log[p].ev = "error" /\ log[p].url = urls[i]
                /\ StartsWith(log[p].msg, "Invalid URL format: ")) }

\* the get_headers calls made for input i, each known by its first GET
CallsOf(i) == { p \in GetsOf(i) : log[p - 1].ev = "progress" }

\* the state part of C12
EveryInputVisitedOnce ==
    /\ index <= Len(urls)
    /\ \A i \in 1..index :
          /\ Cardinality(NormalizationsOf(i)) = 1
          /\ NormalizationsOf(i) = { FirstOf(i) }
          /\ i > 1 => LastOf(i - 1) < FirstOf(i)
          /\ PassesNormalization(urls[i]) =>
                /\ Cardinality(CallsOf(i)) <= 1
                /\ GetsOf(i) # {} => Cardinality(CallsOf(i)) = 1
                /\ (i < index \/ pc \in {"returned", "pace", "loop", "done"}) =>
                        Cardinality(CallsOf(i)) = 1
          /\ ~PassesNormalization(urls[i]) => GetsOf(i) = {}
    /\ \A p \in 1..Len(log) : log[p].i \in 1..index
    /\ pc = "done" => index = Len(urls)

(* C12: no per-URL failure aborts the batch.  Given that each GET and each *)
(* delay returns, process_urls terminates; it visits every input exactly   *)
(* once and in order: each input is normalised once and, when valid,       *)
(* fetched by exactly one get_headers call, whatever mix of invalid URLs,  *)
(* trust failures and other failures occurs.                               *)
C12_BatchNeverAborts ==
    /\ []EveryInputVisitedOnce
    /\ <>(pc = "done")

\* an invalid URL, then a URL whose both GETs failed, and the batch is done
C12_Witness ==
    /\ pc = "done"
    /\ Len(urls) = 2
    /\ ~PassesNormalization(urls[1])
    /\ \E p \in GetsOf(2) : ~log[p].verify /\ log[p].outcome # "ok"
    /\ Len(results) = 1

----------------------------------------------------------------------------
(* main: the batch checks before process_urls (lines 162-187) *)

\* variant: the bound lets one URL too many through
TooMany_OffByOne(us) == Len(us) > MAX_URLS + 1

\* len(urls) > MAX_URLS (line 179)
TooMany(us) == Len(us) > MAX_URLS

\* lists of every length up to one past the bound, one raw string repeated
MainLists == { [ j \in 1..n |-> raw ] : n \in 0..(MAX_URLS + 1), raw \in RawUrls }

\* in a long batch every GET has the same outcome
MainNets == { {Returns(FullResponse)}, {Raises(CertError)}, {Raises(TimeoutError)} }

\* urls = args.urls (line 162)
InitMain ==
    /\ urls \in MainLists
    /\ net \in MainNets
    /\ pc = "main"
    /\ index = 0
    /\ url = ""
    /\ headers = << >>
    /\ raised = << >>
    /\ results = << >>
    /\ log = << >>
    /\ tv = ""
    /\ tr = << >>

\* no URL on the command line: read lines until an empty one (lines 164-173)
ReadInput ==
    /\ pc = "main"
    /\ urls = << >>
    /\ urls' \in MainLists
    /\ pc' = "collected"
    /\ UNCHANGED <<index, url, headers, raised, results, log, net, tv, tr>>

\* the two fatal checks, then the call of process_urls (lines 175-187)
CheckBatch ==
    /\ \/ pc = "main" /\ urls # << >>
       \/ pc = "collected"
    /\ IF urls = << >>
       THEN /\ pc' = "exit"
            /\ log' = Append(log, [ev |-> "exit", i |-> 0, code |-> 1,
                                   msg |-> "No URLs provided. Exiting."])
       ELSE IF TooMany(urls)
            THEN /\ pc' = "exit"
                 /\ log' = Append(log, [ev |-> "exit", i |-> 0, code |-> 1,
                                        msg |-> "Error: Maximum URLs allowed."])
            ELSE /\ pc' = "loop"
                 /\ log' = log
    /\ UNCHANGED <<urls, index, url, headers, raised, results, net, tv, tr>>

NextMain == ReadInput \/ CheckBatch \/ Next

SpecMain == InitMain /\ [][NextMain]_vars

InProcessUrls == pc \in {"loop", "trusted", "untrusted", "returned", "pace", "done"}

(* C13: the batch bound is enforced before any network activity.           *)
(* process_urls runs only on a non-empty list of at most 20 URLs; with no  *)
(* URL or more than 20 the program exits with an error before any GET,     *)
(* delay or record; so a run issues at most 40 GETs, takes at most 19      *)
(* delays and produces at most 20 records.                                 *)
C13_BoundBeforeNetwork ==
    /\ InProcessUrls => Len(urls) \in 1..20
    /\ ~InProcessUrls =>
          /\ EventsOf("get") = {} /\ EventsOf("delay") = {} /\ EventsOf("append") = {}
          /\ results = << >>
    /\ pc = "exit" =>
          /\ urls = << >> \/ Len(urls) > 20
          /\ log[Len(log)].ev = "exit" /\ log[Len(log)].code = 1
    /\ (pc = "collected" \/ (pc = "main" /\ urls # << >>)) =>
          (ENABLED CheckBatch)
    /\ Cardinality(EventsOf("get")) <= 40
    /\ Cardinality(EventsOf("delay")) <= 19
    /\ Len(results) <= 20

\* a full batch: 20 URLs, 40 GETs, 19 delays, 20 records
C13_Witness ==
    /\ pc = "done"
    /\ Len(urls) = 20
    /\ Cardinality(EventsOf("get")) = 40
    /\ Cardinality(EventsOf("delay")) = 19
    /\ Len(results) = 20

----------------------------------------------------------------------------
ProgressOf(i) == { p \in PositionsOf(i) : log[p].ev = "progress" }

(* C14 as stated: every input URL u at index i gets one progress event     *)
(* "processing u (i/N)", emitted as the first step of its iteration,       *)
(* before u is normalised, hence ahead of any error event for u.           *)
C14_ProgressBeforeNormalization ==
    \A i \in 1..index :
        /\ Cardinality(ProgressOf(i)) = 1
        /\ \A p \in ProgressOf(i) :
              /\ p = FirstOf(i)
              /\ log[p].url = urls[i]
              /\ log[p].total = Len(urls)

(* C14 amended: the progress event is emitted after normalisation and only *)
(* when it succeeds.  An input at index i of N that passes normalisation   *)
(* gets exactly one progress event, naming its normalised form and (i/N),  *)
(* ahead of every GET, warning, record and delay of that input; an input   *)
(* that fails normalisation gets no progress event, only its error event.  *)
C14_ProgressAfterNormalization ==
    \A i \in 1..index :
        IF PassesNormalization(urls[i])
        THEN /\ Cardinality(ProgressOf(i)) = 1
             /\ \A p \in ProgressOf(i) :
                   /\ p = FirstOf(i)
                   /\ log[p].url = Candidate(urls[i])
                   /\ log[p].total = Len(urls)
             /\ \A p \in PositionsOf(i) : log[p].ev # "error"
        ELSE /\ ProgressOf(i) = {}
             /\ \A p \in PositionsOf(i) : log[p].ev = "error"

\* an invalid input without progress event, then "a.io" announced as
\* "https://a.io (2/3)" and fetched
C14_Witness ==
    /\ Len(urls) = 3
    /\ urls[1] = "not a url" /\ urls[2] = "a.io"
    /\ ProgressOf(1) = {}
    /\ \E p \in ProgressOf(2) : log[p].url = "https://a.io" /\ log[p].total = 3
    /\ GetsOf(2) # {}

----------------------------------------------------------------------------
\* the loop is about to take an input that fails normalisation
AtInvalidInput ==
    /\ pc = "loop"
    /\ index < Len(urls)
    /\ ~ValidatorsUrl(ClaimedCandidate(urls[index + 1]))

\* what the iteration of an invalid input does
InvalidInputStep ==
    AtInvalidInput =>
        /\ results' = results
        /\ headers' = headers
        /\ index' = index + 1
        /\ pc' = "loop"
        /\ log' = Append(log,
                    [ev |-> "error", url |-> urls[index + 1], i |-> index + 1,
                     msg |-> "Invalid URL format: "
                                \o ClaimedCandidate(urls[index + 1])])

\* error events belong to invalid inputs, and are all they have
ErrorsOnlyForInvalid ==
    \A i \in 1..index :
        IF ValidatorsUrl(ClaimedCandidate(urls[i]))
        THEN \A p \in PositionsOf(i) : log[p].ev # "error"
        ELSE /\ Cardinality(PositionsOf(i)) = 1
             /\ \A p \in PositionsOf(i) : log[p].ev = "error" /\ log[p].url = urls[i]

(* C15: the iteration of an input that fails normalisation emits exactly   *)
(* one error event naming the raw input and the exception, issues no GET,  *)
(* takes no delay and appends no record: results is the same before and    *)
(* after.  Inputs that pass normalisation, Degraded ones included, produce *)
(* no error event.                                                         *)
C15_InvalidUrlFrame ==
    /\ []ErrorsOnlyForInvalid
    /\ [][InvalidInputStep]_vars

\* an invalid input was skipped with one record already in results, and a
\* Degraded record was appended without error event
C15_Witness ==
    /\ Len(urls) = 3
    /\ index = 3
    /\ pc = "pace"
    /\ ~PassesNormalization(urls[2])
    /\ Cardinality(PositionsOf(2)) = 1
    /\ Len(results) = 2
    /\ results[2]["x-frame-options"] = "Error: "

----------------------------------------------------------------------------
\* input i is finished at log position p: its record appended, or skipped
FinishedBefore(i, q) ==
    \E p \in 1..(q - 1) :
        /\ log[p].i = i
        /\ IF PassesNormalization(urls[i])
           THEN log[p].ev = "append"
           ELSE log[p].ev = "error"

(* C16: strictly sequential processing.  For input indices i < j every     *)
(* event of URL i (normalisation, GETs, warning, append, delay) comes      *)
(* before every event of URL j, and no GET of URL j is issued before the   *)
(* record of URL i was appended, or URL i was skipped as invalid; the      *)
(* program is at one place at a time, so one GET at most is under way.     *)
C16_StrictlySequential ==
    /\ \A p, q \in 1..Len(log) : p < q => log[p].i <= log[q].i
    /\ \A q \in EventsOf("get") :
          \A i \in 1..(log[q].i - 1) : FinishedBefore(i, q)
    /\ \A i \in 1..index :
          \A p \in PositionsOf(i) :
              log[p].ev = "append" => \A q \in GetsOf(i) : q < p
    /\ pc \in {"trusted", "untrusted"} =>
          \A i \in 1..(index - 1) : FinishedBefore(i, Len(log) + 1)

\* the third URL is being fetched after a Degraded record and a skipped URL
C16_Witness ==
    /\ Len(urls) = 3
    /\ pc = "untrusted"
    /\ index = 3
    /\ ~PassesNormalization(urls[2])
    /\ Len(results) = 1
    /\ GetsOf(1) # {} /\ GetsOf(3) # {}

----------------------------------------------------------------------------
(* C17 as stated: each delay is followed, before the batch ends, by the    *)
(* fetch of a later URL; no delay comes after the last GET of the batch.   *)
C17_DelayThenFetch ==
    pc = "done" =>
        \A p \in EventsOf("delay") : \E q \in EventsOf("get") : q > p

(* C17 amended: a delay is taken only after the record of an input whose   *)
(* index is below N, i.e. while a later input remains in the list; it is   *)
(* followed by the normalisation of the next input, and by a GET only if   *)
(* some later input passes normalisation.                                  *)
C17_DelayOnlyBeforeNextInput ==
    \A p \in EventsOf("delay") :
        /\ log[p].i < Len(urls)
        /\ p >= 2 /\ log[p - 1].ev = "append" /\ log[p - 1].i = log[p].i
        /\ p < Len(log) =>
              /\ log[p + 1].i = log[p].i + 1
              /\ log[p + 1].ev \in {"progress", "error"}
        /\ pc = "done" =>
              /\ p < Len(log)
              /\ (\E q \in EventsOf("get") : q > p)
                    <=> (\E j \in (log[p].i + 1)..Len(urls) : PassesNormalization(urls[j]))

\* the batch ended with a delay that no fetch followed: the only later
\* input was invalid
C17_Witness ==
    /\ pc = "done"
    /\ urls = << "a.io", "not a url" >>
    /\ Cardinality(EventsOf("delay")) = 1
    /\ \A p \in EventsOf("delay") : \A q \in EventsOf("get") : q < p
    /\ log[Len(log)].ev = "error"

----------------------------------------------------------------------------
\* the inputs fetched so far, i.e. those with a GET in the log
Fetched == { i \in 1..index : GetsOf(i) # {} }

\* the delays taken between log positions p and q
DelaysBetween(p, q) == { d \in EventsOf("delay") : p < d /\ d < q }

(* C18: pacing in any batch.  Between the last GET of one fetched URL and  *)
(* the first GET of the next fetched URL exactly one delay is taken; no    *)
(* delay is taken before the first GET of the batch; and when the batch    *)
(* ends the number of delays is the number of inputs that pass             *)
(* normalisation and are not at the last index N.                          *)
C18_PacingBetweenRequests ==
    /\ \A i, j \in Fetched :
          (i < j /\ \A k \in Fetched : ~(i < k /\ k < j)) =>
              LET lastGet  == CHOOSE g \in GetsOf(i) : \A h \in GetsOf(i) : h <= g
                  firstGet == CHOOSE g \in GetsOf(j) : \A h \in GetsOf(j) : g <= h
              IN  Cardinality(DelaysBetween(lastGet, firstGet)) = 1
    /\ \A d \in EventsOf("delay") : \E g \in EventsOf("get") : g < d
    /\ pc = "done" =>
          Cardinality(EventsOf("delay")) =
              Cardinality({ i \in 1..(Len(urls) - 1) : PassesNormalization(urls[i]) })

\* two fetched URLs with an invalid one between them, and one delay
\* between their GETs
C18_Witness ==
    /\ pc = "done"
    /\ Len(urls) = 3
    /\ PassesNormalization(urls[1])
    /\ ~PassesNormalization(urls[2])
    /\ PassesNormalization(urls[3])
    /\ Cardinality(EventsOf("delay")) = 1
    /\ Cardinality(Fetched) = 2

----------------------------------------------------------------------------
\* the inputs among the first k that pass normalisation
ValidAmong(k) == { i \in 1..k : PassesNormalization(urls[i]) }

\* the inputs whose iteration is over: all up to index, but the current one
\* while it is still being fetched
Processed == IF pc \in {"trusted", "untrusted", "returned"} THEN index - 1 ELSE index

ResultsCount ==
    /\ Len(results) = Cardinality(ValidAmong(Processed))
    /\ Len(results) <= Processed

\* a step keeps every record in place and adds at most one at the end
ResultsGrowAtEnd ==
    /\ Len(results') \in { Len(results), Len(results) + 1 }
    /\ SubSeq(results', 1, Len(results)) = results

(* C19: results is append-only.  Every step leaves the records already in  *)
(* the list unchanged and in place, adding at most one at the end, so each *)
(* state's list is a prefix of the returned one; after k inputs have been  *)
(* processed its length is the number of those k that passed               *)
(* normalisation, hence at most k.                                         *)
C19_AppendOnly ==
    /\ []ResultsCount
    /\ [][ResultsGrowAtEnd]_vars

\* a third, different record was appended behind two others
C19_Witness ==
    /\ Len(results) = 3
    /\ pc = "done"
    /\ results[1] # results[2]
    /\ results[2] # results[3]

----------------------------------------------------------------------------
\* the GET that decided the fetch of input i: its last one
DecidingGet(i) == log[CHOOSE g \in GetsOf(i) : \A h \in GetsOf(i) : h <= g]

\* a value as recorded: cut to 80 characters and "..." when longer
Cut(v) == IF Len(v) > 80 THEN SubSeq(v, 1, 80) \o "..." ELSE v

\* the record that a normalised URL and the outcome of its deciding GET
\* determine
RecordFrom(u, g) ==
    [ k \in {"URL"} \cup TrackedSet |->
        IF k = "URL" THEN u
        ELSE IF g.outcome # "ok" THEN Cut("Error: " \o g.err)
        ELSE IF \E n \in DOMAIN g.resp : SameName(n, k)
             THEN Cut(g.resp[CHOOSE n \in DOMAIN g.resp : SameName(n, k)])
             ELSE "Missing" ]

\* what a GET did, apart from where in the batch it happened
Outcome(g) == << g.verify, g.outcome, g.err, g.resp >>

(* C20: per-URL independence.  The record of an input is a function of     *)
(* that URL and of the outcome of its own GETs alone: it is the same       *)
(* whatever other URLs the batch holds, whatever their validity and fetch  *)
(* outcomes, and wherever in the list the URL stands; two inputs with the  *)
(* same URL and the same fetch outcome get equal records.                  *)
C20_PerUrlIndependence ==
    /\ \A p \in EventsOf("append") :
          RecordOf(p) = RecordFrom(Candidate(urls[log[p].i]), DecidingGet(log[p].i))
    /\ \A p, q \in EventsOf("append") :
          (/\ Candidate(urls[log[p].i]) = Candidate(urls[log[q].i])
           /\ Outcome(DecidingGet(log[p].i)) = Outcome(DecidingGet(log[q].i))) =>
              RecordOf(p) = RecordOf(q)

\* a Degraded record after a successful fetch of another URL carries
\* nothing of that fetch
C20_Witness ==
    /\ Len(results) = 2
    /\ results[1]["URL"] # results[2]["URL"]
    /\ results[1]["x-frame-options"] = "DENY"
    /\ \A h \in TrackedSet : results[2][h] = "Error: certificate verify failed"

====
